---- MODULE Spec2Model ----
(***************************************************************************)
(* The JSON-schema-to-pydantic compiler of the prospector assistant's      *)
(* outline-feedback configuration                                          *)
(* (assistant/agents/document/gc_draft_outline_feedback_config.py):        *)
(* json_type_to_python_type, create_pydantic_model_from_json_schema with   *)
(* its nested parse_properties, and                                        *)
(* GCDraftOutlineFeedbackConfigModel.get_artifact_model.                   *)
(*                                                                         *)
(* The recursion of create_pydantic_model_from_json_schema is run as a     *)
(* machine with an explicit call stack: one frame per activation, one step *)
(* per iteration of the loop of parse_properties, one step per return.     *)
(* An exception nobody catches (the file has no try) unwinds every frame.  *)
(***************************************************************************)
EXTENDS Integers, Sequences, FiniteSets, TLC

(***************************************************************************)
(* JSON values, as json.loads builds them.  Every value carries its kind   *)
(* in the field k.  A dict that is read as a schema node carries the keys  *)
(* the code looks up (type, description, properties, items) and the key    *)
(* `required`, which the code never looks up; a dict read as a `properties`*)
(* mapping is the ordered sequence of its (name, value) entries (Python    *)
(* dicts keep insertion order).  Property names are sequences of           *)
(* characters, so that str.capitalize is computed and not assumed.         *)
(***************************************************************************)
Absent == [k |-> "absent"]
None == [k |-> "none"]
JStr(s) == [k |-> "str", s |-> s]
JNum == [k |-> "num"]
JList(e) == [k |-> "list", e |-> e]
JName(n) == [k |-> "name", n |-> n]
Node(t, d, p, i, r) ==
    [k |-> "dict", type |-> t, description |-> d, properties |-> p,
     items |-> i, required |-> r]
Props(e) == [k |-> "props", e |-> e]
Entry(n, v) == [name |-> n, attrs |-> v]

\* isinstance(v, dict): the only values with .get and .items
IsMapping(v) == v.k \in {"dict", "props"}

\* dict.get(key, default) on a schema node
Get(m, key, default) == IF m[key] = Absent THEN default ELSE m[key]

\* hash(v) succeeds: lists and dicts are unhashable
Hashable(v) == v.k \notin {"list", "dict", "props"}

(***************************************************************************)
(* The types a compiled field can have, and the compiled model.            *)
(***************************************************************************)
PyInt == [k |-> "int"]
PyStr == [k |-> "str"]
PyFloat == [k |-> "float"]
PyBool == [k |-> "bool"]
PyDict == [k |-> "dict"]
PyList == [k |-> "list"]
PyAny == [k |-> "Any"]
\* typing.List[t]
ListOf(t) == [k |-> "List", elem |-> t]
\* pydantic.Field(None, description=description): a default, so not required
FieldOptional(description) == [required |-> FALSE, description |-> description]
\* pydantic.Field(..., description=description): Ellipsis marks the field required
Field(description) == [required |-> TRUE, description |-> description]
\* a field stored under a name made safe for the target language
FieldDefSanitized(n, t, f) ==
    [name |-> n \o <<"_">>, type |-> t, required |-> f.required,
     description |-> f.description]
\* one entry of the dict `fields`: fields[prop_name] = (type, Field(...))
FieldDef(n, t, f) ==
    [name |-> n, type |-> t, required |-> f.required, description |-> f.description]
\* pydantic.create_model(model_name, **fields): the class named model_name
\* with the given field definitions, in the order of the keyword arguments
create_model(model_name, fields) ==
    [k |-> "model", name |-> model_name, fields |-> fields]
\* an exception that leaves the call
Raised(exc) == [k |-> "error", exc |-> exc]

\* json_type_to_python_type with the lookup table swapped for integer/number
json_type_to_python_type_swapped(json_type) ==
    CASE json_type = JStr("integer") -> PyFloat
      [] json_type = JStr("string") -> PyStr
      [] json_type = JStr("number") -> PyInt
      [] json_type = JStr("boolean") -> PyBool
      [] json_type = JStr("object") -> PyDict
      [] json_type = JStr("array") -> PyList
      [] OTHER -> PyAny

\* type_mapping.get(json_type, Any), for a hashable json_type
json_type_to_python_type(json_type) ==
    CASE json_type = JStr("integer") -> PyInt
      [] json_type = JStr("string") -> PyStr
      [] json_type = JStr("number") -> PyFloat
      [] json_type = JStr("boolean") -> PyBool
      [] json_type = JStr("object") -> PyDict
      [] json_type = JStr("array") -> PyList
      [] OTHER -> PyAny

\* str.upper and str.lower on one character of the alphabet of PropNames
Upper(c) ==
    CASE c = "a" -> "A" [] c = "b" -> "B" [] c = "d" -> "D"
      [] c = "i" -> "I" [] c = "x" -> "X" [] OTHER -> c
Lower(c) ==
    CASE c = "A" -> "a" [] c = "B" -> "b" [] c = "D" -> "d"
      [] c = "I" -> "i" [] c = "X" -> "x" [] OTHER -> c

\* a capitalisation that only raises the first character
CapitalizeFirstOnly(s) ==
    IF s = <<>> THEN s ELSE <<Upper(s[1])>> \o SubSeq(s, 2, Len(s))

\* str.capitalize: the first character upper-cased, every other one lower-cased
Capitalize(s) ==
    IF s = <<>> THEN s
    ELSE <<Upper(s[1])>> \o [i \in 1..(Len(s) - 1) |-> Lower(s[i + 1])]

\* the default of the parameter model_name
DynamicModel == <<"D", "y", "n", "a", "m", "i", "c", "M", "o", "d", "e", "l">>

(***************************************************************************)
(* The documents the calls are given.                                      *)
(***************************************************************************)
\* the most properties a mapping of the explored documents has
MaxProps == 2
\* the deepest nesting of models in the explored documents
MaxDepth == 2

PropNames == {<<"x">>, <<"a", "B">>, <<"I", "d">>}
Descriptions == {Absent, JStr("d")}
ScalarTypes ==
    {JStr("integer"), JStr("string"), JStr("number"), JStr("boolean"),
     JStr("frobnicate"), Absent}
\* a JSON-Schema union type, "type": ["string", "null"]
UnionType == JList(<<JStr("string"), JStr("null")>>)

Scalar(t, d) == Node(t, d, Absent, Absent, Absent)
Object(d, p, r) == Node(JStr("object"), d, p, Absent, r)
Array(d, i) == Node(JStr("array"), d, Absent, i, Absent)

ScalarAttrs == {Scalar(t, d) : t \in ScalarTypes, d \in Descriptions}
LeafAttrs == {Scalar(JStr("integer"), JStr("d")), Scalar(Absent, Absent)}

\* the `properties` mappings of at most n entries with values in C
PropsOver(C, n) ==
    {Props(e) : e \in UNION {
        {s \in [1..m -> {Entry(nm, v) : nm \in PropNames, v \in C}] :
            \A i, j \in 1..m : i # j => s[i].name # s[j].name} : m \in 0..n}}

\* `required` arrays: none, an empty one, one naming a single property
Requireds == {Absent, JList(<<>>), JList(<<JName(<<"x">>)>>)}

\* arrays whose items are not compiled to a model
PlainArrays ==
    {Array(d, Absent) : d \in Descriptions}
    \cup {Array(Absent, Scalar(t, Absent)) : t \in ScalarTypes \cup {JStr("array")}}

\* property attributes with models nested exactly d deep below them
RECURSIVE Nested(_)
Nested(d) ==
    IF d = 0 THEN {}
    ELSE LET wide == IF d = 1 THEN PropsOver(LeafAttrs, MaxProps) \cup {Absent} ELSE {}
             chain == {Props(<<Entry(nm, v)>>) :
                          nm \in {<<"a", "B">>}, v \in Nested(d - 1)}
         IN  {Object(ds, p, Absent) : ds \in Descriptions, p \in wide}
             \cup {Object(Absent, p, JList(<<>>)) : p \in chain}
             \cup {Array(JStr("d"), Node(JStr("object"), Absent, p, Absent, Absent)) :
                      p \in wide \cup chain}

NestedUpTo(d) == UNION {Nested(i) : i \in 1..d}

\* values json.loads can build that the compiler has no case for
MalformedAttrs ==
    {JNum, JList(<<>>), Scalar(UnionType, Absent),
     Array(Absent, JList(<<>>)), Array(Absent, Scalar(UnionType, Absent)),
     Object(Absent, JList(<<>>), Absent)}

\* the schema documents create_pydantic_model_from_json_schema is called with
Docs ==
    {Node(t, Absent, Absent, i, r) :
        t \in {Absent, JStr("object"), JStr("array")},
        i \in {Absent, Scalar(JStr("string"), Absent)}, r \in Requireds}
    \cup {Node(JStr("object"), Absent, p, Absent, r) :
            p \in PropsOver(LeafAttrs \cup {Array(Absent, Absent)}, MaxProps),
            r \in Requireds}
    \cup {Node(Absent, Absent, p, Absent, Absent) :
            p \in PropsOver(ScalarAttrs \cup PlainArrays \cup NestedUpTo(MaxDepth)
                            \cup MalformedAttrs, 1)}
    \cup {Node(Absent, Absent, Props(<<Entry(<<"x">>, v), Entry(<<"I", "d">>, w)>>),
               Absent, Absent) :
            v \in NestedUpTo(1), w \in MalformedAttrs \cup {Scalar(JStr("string"), Absent)}}
    \cup {Node(Absent, Absent, JList(<<>>), Absent, Absent)}

\* json.dumps of a value, or text json.loads rejects (value: None)
Text(v) == [k |-> "text", parses |-> TRUE, value |-> v]
InvalidText == [k |-> "text", parses |-> FALSE, value |-> None]
\* the schema of ArtifactModel, the default of the field `artifact`
DefaultArtifact ==
    Node(JStr("object"), Absent,
         Props(<<Entry(<<"x">>, Scalar(JStr("string"), JStr("d"))),
                 Entry(<<"a", "B">>, Scalar(JStr("string"), JStr("d")))>>),
         Absent, JList(<<JName(<<"x">>), JName(<<"a", "B">>)>>))
\* the values of the configuration field `artifact`
Artifacts ==
    {InvalidText, Text(DefaultArtifact), Text(JList(<<>>)), Text(JNum),
     Text(Node(Absent, Absent, Absent, Absent, Absent)),
     Text(Node(Absent, Absent, Props(<<Entry(<<"x">>, JNum)>>), Absent, Absent)),
     Text(Node(Absent, Absent,
               Props(<<Entry(<<"x">>, Array(Absent, Object(Absent, Absent, Absent)))>>),
               Absent, Absent))}

\* the documents whose first result is kept for comparison with later calls
ProbeDocs ==
    {DefaultArtifact,
     Node(Absent, Absent, Absent, Absent, Absent),
     Node(Absent, Absent,
          Props(<<Entry(<<"a", "B">>, Object(JStr("d"),
                    Props(<<Entry(<<"x">>, Scalar(Absent, Absent))>>), Absent))>>),
          Absent, Absent),
     Node(Absent, Absent, Props(<<Entry(<<"x">>, Scalar(UnionType, Absent))>>),
          Absent, Absent)}

(***************************************************************************)
(* State.                                                                  *)
(*   call     the call in progress or last made: op is "idle" before the   *)
(*            first call, else the function called from outside; artifact  *)
(*            is self.artifact (Absent for a direct call of the compiler); *)
(*            schema is the document given to the compiler (None when      *)
(*            json.loads raised)                                           *)
(*   stack    the activations of create_pydantic_model_from_json_schema,   *)
(*            outermost first: model_name, the entries of `properties`,    *)
(*            the position i of the loop of parse_properties, and `fields` *)
(*   outcome  None while a call runs, then what the call returned or raised*)
(*   nframes  activations of the compiler since the call began             *)
(*   maxdepth deepest recursion since the call began (0: the outer call)   *)
(*   memo     history: a document, the outcome of an earlier call on it,   *)
(*            and whether a call has been made again since                 *)
(***************************************************************************)
VARIABLES call, stack, outcome, nframes, maxdepth, memo

vars == <<call, stack, outcome, nframes, maxdepth, memo>>

NoMemo == [k |-> "none"]
EmptyDict == Node(Absent, Absent, Absent, Absent, Absent)

\* `fields` starting from what an earlier call left behind
NewFieldsShared ==
    IF memo # NoMemo /\ memo.outcome.k = "model" THEN memo.outcome.fields ELSE <<>>

\* fields = {}
NewFields == <<>>

\* schema["properties"] in place of schema.get("properties", {})
EnterErrorSubscript(schema) ==
    IF schema.k # "dict" THEN "TypeError"
    ELSE IF schema.properties = Absent THEN "KeyError"
    ELSE IF ~IsMapping(schema.properties) THEN "AttributeError"
    ELSE "none"

\* the exception raised on entering the compiler with `schema`, or "none":
\* schema.get needs a dict, properties.items() needs a dict
EnterError(schema) ==
    IF schema.k # "dict" THEN "AttributeError"
    ELSE IF ~IsMapping(Get(schema, "properties", Props(<<>>))) THEN "AttributeError"
    ELSE "none"

\* the activation of create_pydantic_model_from_json_schema(schema, model_name)
\* on reaching the loop of parse_properties
NewFrame(schema, model_name) ==
    [model_name |-> model_name,
     props |-> Get(schema, "properties", Props(<<>>)).e,
     i |-> 1,
     fields |-> NewFields]

Top == stack[Len(stack)]
Running == stack # <<>>
InLoop == Running /\ Top.i <= Len(Top.props)
prop_name == Top.props[Top.i].name
prop_attrs == Top.props[Top.i].attrs
prop_type == Get(prop_attrs, "type", None)
description == Get(prop_attrs, "description", None)
items == Get(prop_attrs, "items", EmptyDict)

\* the exception the current iteration of the loop raises, or "none"
IterError ==
    IF ~IsMapping(prop_attrs) THEN "AttributeError"
    ELSE IF prop_type = JStr("object") THEN EnterError(prop_attrs)
    ELSE IF prop_type = JStr("array")
         THEN IF ~IsMapping(items) THEN "AttributeError"
              ELSE IF Get(items, "type", None) = JStr("object") THEN EnterError(items)
              ELSE IF ~Hashable(Get(items, "type", None)) THEN "TypeError"
              ELSE "none"
    ELSE IF ~Hashable(prop_type) THEN "TypeError"
    ELSE "none"

\* the call on `schema` ends with `out`; the history may keep it
Complete(schema, out) ==
    /\ outcome' = out
    /\ \/ memo' = memo
       \/ /\ memo = NoMemo
          /\ schema \in ProbeDocs
          /\ memo' = [k |-> "memo", schema |-> schema, outcome |-> out,
                       again |-> FALSE]

\* the outer call of the compiler on `schema`
Begin(schema) ==
    /\ nframes' = 1
    /\ maxdepth' = 0
    /\ IF EnterError(schema) # "none"
       THEN /\ stack' = <<>>
            /\ Complete(schema, Raised(EnterError(schema)))
       ELSE /\ stack' = <<NewFrame(schema, DynamicModel)>>
            /\ outcome' = None
            /\ memo' = IF memo = NoMemo THEN memo ELSE [memo EXCEPT !.again = TRUE]

Idle == call.op = "idle"

\* GCDraftOutlineFeedbackConfigModel.get_artifact_model
get_artifact_model ==
    /\ Idle
    /\ \E a \in Artifacts :
        /\ call' = [op |-> "get_artifact_model", artifact |-> a, schema |-> a.value]
        /\ IF ~a.parses
           THEN /\ stack' = <<>>
                /\ nframes' = 0
                /\ maxdepth' = 0
                /\ Complete(a.value, Raised("JSONDecodeError"))
           ELSE Begin(a.value)

\* a direct call create_pydantic_model_from_json_schema(schema)
create_pydantic_model_from_json_schema ==
    /\ Idle
    /\ \E schema \in Docs :
        /\ call' = [op |-> "create_pydantic_model_from_json_schema",
                    artifact |-> Absent, schema |-> schema]
        /\ Begin(schema)

\* the top activation with one more field and the loop moved on
WithField(frame, type) ==
    [frame EXCEPT !.fields = Append(@, FieldDef(frame.props[frame.i].name, type,
                                   Field(Get(frame.props[frame.i].attrs,
                                             "description", None)))),
                  !.i = @ + 1]

\* the else branch: a scalar or unrecognised type
parse_scalar ==
    /\ InLoop
    /\ IterError = "none"
    /\ prop_type \notin {JStr("object"), JStr("array")}
    /\ stack' = [stack EXCEPT ![Len(stack)] =
                    WithField(Top, json_type_to_python_type(prop_type))]
    /\ UNCHANGED <<call, outcome, nframes, maxdepth, memo>>

Max(a, b) == IF a >= b THEN a ELSE b

\* a recursive call: one more activation
Recurse(schema, model_name) ==
    /\ stack' = Append(stack, NewFrame(schema, model_name))
    /\ nframes' = nframes + 1
    /\ maxdepth' = Max(maxdepth, Len(stack))
    /\ UNCHANGED <<call, outcome, memo>>

\* type array: a nested model made of items whatever their type
parse_array_always_nested ==
    /\ InLoop
    /\ IterError = "none"
    /\ prop_type = JStr("array")
    /\ Get(items, "type", None) # JStr("object")
    /\ Recurse(items, DynamicModel)

\* type array, items not of type object
parse_array ==
    /\ InLoop
    /\ IterError = "none"
    /\ prop_type = JStr("array")
    /\ Get(items, "type", None) # JStr("object")
    /\ stack' = [stack EXCEPT ![Len(stack)] =
                    WithField(Top, ListOf(json_type_to_python_type(
                                              Get(items, "type", None))))]
    /\ UNCHANGED <<call, outcome, nframes, maxdepth, memo>>

\* type object: the recursive call on prop_attrs
parse_object ==
    /\ InLoop
    /\ IterError = "none"
    /\ prop_type = JStr("object")
    /\ Recurse(prop_attrs, Capitalize(prop_name))

\* type array with items of type object: the recursive call on items
parse_array_of_object ==
    /\ InLoop
    /\ IterError = "none"
    /\ prop_type = JStr("array")
    /\ Get(items, "type", None) = JStr("object")
    /\ Recurse(items, DynamicModel)

\* the field type the caller makes of a nested model
NestedFieldType(caller, nested_model) ==
    IF Get(caller.props[caller.i].attrs, "type", None) = JStr("object")
    THEN nested_model
    ELSE ListOf(nested_model)

\* return create_model(model_name, **fields), to the caller's assignment
return_model ==
    /\ Running
    /\ Top.i > Len(Top.props)
    /\ LET model == create_model(Top.model_name, Top.fields)
       IN  IF Len(stack) = 1
           THEN /\ stack' = <<>>
                /\ Complete(call.schema, model)
           ELSE /\ stack' = [SubSeq(stack, 1, Len(stack) - 1) EXCEPT ![Len(stack) - 1] =
                                WithField(@, NestedFieldType(@, model))]
                /\ outcome' = outcome
                /\ memo' = memo
    /\ UNCHANGED <<call, nframes, maxdepth>>

\* an AttributeError or TypeError in the loop: nothing catches it
raise_exception ==
    /\ InLoop
    /\ IterError # "none"
    /\ stack' = <<>>
    /\ Complete(call.schema, Raised(IterError))
    /\ UNCHANGED <<call, nframes, maxdepth>>

\* the caller has the value, or the exception: the call is over
caller_resumes ==
    /\ ~Idle
    /\ ~Running
    /\ call' = [op |-> "idle", artifact |-> Absent, schema |-> None]
    /\ outcome' = None
    /\ nframes' = 0
    /\ maxdepth' = 0
    /\ UNCHANGED <<stack, memo>>

Init ==
    /\ call = [op |-> "idle", artifact |-> Absent, schema |-> None]
    /\ stack = <<>>
    /\ outcome = None
    /\ nframes = 0
    /\ maxdepth = 0
    /\ memo = NoMemo

Step ==
    \/ parse_scalar
    \/ parse_array
    \/ parse_object
    \/ parse_array_of_object
    \/ return_model
    \/ raise_exception

Next ==
    \/ get_artifact_model
    \/ create_pydantic_model_from_json_schema
    \/ Step
    \/ caller_resumes

Spec == Init /\ [][Next]_vars

\* the interpreter runs a call that has begun to its end
FairSpec == Spec /\ WF_vars(Step)

Done == ~Idle /\ ~Running

(***************************************************************************)
(* What the specification says of a schema document, written from its      *)
(* sections 3, 4.1 and 8 and from nothing above.                           *)
(***************************************************************************)
\* a schema document of section 3: every node a mapping, `type` a string or
\* missing, `properties` a mapping of names to schema documents, `items` a
\* schema document
RECURSIVE IsSchemaDocument(_)
IsSchemaDocument(v) ==
    /\ v.k = "dict"
    /\ v.type.k \in {"absent", "str"}
    /\ \/ v.properties = Absent
       \/ /\ v.properties.k = "props"
          /\ \A q \in 1..Len(v.properties.e) : IsSchemaDocument(v.properties.e[q].attrs)
    /\ v.items = Absent \/ IsSchemaDocument(v.items)

\* the entries of S.properties, none when the key is missing
Entries(schema) == IF schema.properties = Absent THEN <<>> ELSE schema.properties.e
\* the keys of S.properties in insertion order
Keys(schema) == [q \in 1..Len(Entries(schema)) |-> Entries(schema)[q].name]
FieldNames(fields) == [q \in 1..Len(fields) |-> fields[q].name]

\* the primitive-type table of section 4.1
SpecTable(t) ==
    IF t = JStr("integer") THEN [k |-> "int"]
    ELSE IF t = JStr("string") THEN [k |-> "str"]
    ELSE IF t = JStr("number") THEN [k |-> "float"]
    ELSE IF t = JStr("boolean") THEN [k |-> "bool"]
    ELSE IF t = JStr("object") THEN [k |-> "dict"]
    ELSE IF t = JStr("array") THEN [k |-> "list"]
    ELSE [k |-> "Any"]

\* "x".capitalize(), "aB".capitalize() and "Id".capitalize(), as Python prints them
Capitalized(n) ==
    IF n = <<"x">> THEN <<"X">>
    ELSE IF n = <<"a", "B">> THEN <<"A", "b">>
    ELSE <<"I", "d">>

TypeOf(attrs) == IF attrs.type = Absent THEN None ELSE attrs.type
ItemsOf(attrs) == IF attrs.items = Absent THEN EmptyDict ELSE attrs.items
DescriptionOf(attrs) == IF attrs.description = Absent THEN None ELSE attrs.description

\* compile(schema, name) of section 4.1
RECURSIVE SpecCompile(_, _)
SpecFieldType(n, attrs) ==
    IF TypeOf(attrs) = JStr("object") THEN SpecCompile(attrs, Capitalized(n))
    ELSE IF TypeOf(attrs) = JStr("array")
         THEN IF TypeOf(ItemsOf(attrs)) = JStr("object")
              THEN [k |-> "List", elem |-> SpecCompile(ItemsOf(attrs), DynamicModel)]
              ELSE [k |-> "List", elem |-> SpecTable(TypeOf(ItemsOf(attrs)))]
    ELSE SpecTable(TypeOf(attrs))
SpecCompile(schema, name) ==
    [k |-> "model", name |-> name,
     fields |-> [q \in 1..Len(Entries(schema)) |->
                    [name |-> Entries(schema)[q].name,
                     type |-> SpecFieldType(Entries(schema)[q].name,
                                            Entries(schema)[q].attrs),
                     required |-> TRUE,
                     description |-> DescriptionOf(Entries(schema)[q].attrs)]]]

\* the nodes compiled to a nested model: object properties, arrays of objects
IsNestedNode(attrs) ==
    \/ TypeOf(attrs) = JStr("object")
    \/ TypeOf(attrs) = JStr("array") /\ TypeOf(ItemsOf(attrs)) = JStr("object")
NestedSchema(attrs) == IF TypeOf(attrs) = JStr("object") THEN attrs ELSE ItemsOf(attrs)

RECURSIVE SeqMax(_)
SeqMax(s) == IF s = <<>> THEN 0 ELSE Max(s[1], SeqMax(Tail(s)))
RECURSIVE SeqSum(_)
SeqSum(s) == IF s = <<>> THEN 0 ELSE s[1] + SeqSum(Tail(s))

\* the longest chain of object properties and arrays-of-object items
RECURSIVE NestingDepth(_)
NestingDepth(schema) ==
    SeqMax([q \in 1..Len(Entries(schema)) |->
               IF IsNestedNode(Entries(schema)[q].attrs)
               THEN 1 + NestingDepth(NestedSchema(Entries(schema)[q].attrs))
               ELSE 0])

\* how many object properties and arrays-of-object items the document holds
RECURSIVE NestedNodes(_)
NestedNodes(schema) ==
    SeqSum([q \in 1..Len(Entries(schema)) |->
               IF IsNestedNode(Entries(schema)[q].attrs)
               THEN 1 + NestedNodes(NestedSchema(Entries(schema)[q].attrs))
               ELSE 0])

\* every model in the making and the model returned, each with the entries
\* of `properties` it was made from so far
Compiled ==
    {[fields |-> stack[j].fields, props |-> stack[j].props] : j \in 1..Len(stack)}
    \cup (IF Done /\ outcome.k = "model"
          THEN {[fields |-> outcome.fields, props |-> Entries(call.schema)]}
          ELSE {})

(***************************************************************************)
(* The claims.                                                             *)
(***************************************************************************)

C2_NeverFails ==
    Done /\ call.schema.k = "dict" => outcome.k = "model"

\* C3: get_artifact_model on an artifact string that does not parse raises
\* MalformedSchema (json.JSONDecodeError) before the compiler is entered, and
\* MalformedSchema is the only error get_artifact_model ends in.
C3_OnlyMalformedSchema ==
    Done /\ call.op = "get_artifact_model" =>
        /\ ~call.artifact.parses =>
              outcome = Raised("JSONDecodeError") /\ nframes = 0
        /\ outcome.k = "error" => outcome.exc = "JSONDecodeError"

\* the table of C4: four primitives, everything else unconstrained
C4Table(t) ==
    IF t = JStr("integer") THEN [k |-> "int"]
    ELSE IF t = JStr("string") THEN [k |-> "str"]
    ELSE IF t = JStr("number") THEN [k |-> "float"]
    ELSE IF t = JStr("boolean") THEN [k |-> "bool"]
    ELSE [k |-> "Any"]

\* the iteration under way ends with one more field in the same activation,
\* of type t
AppendsField(t) ==
    /\ Len(stack') = Len(stack)
    /\ stack'[Len(stack)].i = Top.i + 1
    /\ Len(stack'[Len(stack)].fields) = Len(Top.fields) + 1
    /\ stack'[Len(stack)].fields[Len(Top.fields) + 1].type = t

\* C4: a property whose type is neither object nor array gets the image of
\* its type in the primitive table (integer, text, floating-point, boolean),
\* and the unconstrained type for any other or a missing value, without
\* failing.
C4_PrimitiveTable ==
    [][InLoop /\ IsMapping(prop_attrs)
       /\ prop_type \notin {JStr("object"), JStr("array")}
            => AppendsField(C4Table(prop_type))]_vars

\* What the code does keep of C4: with a hashable `type` the field is appended
\* with the image of the type, and nothing is raised.
PrimitiveTableOnHashable ==
    [][InLoop /\ IsMapping(prop_attrs)
       /\ prop_type \notin {JStr("object"), JStr("array")}
       /\ Hashable(prop_type)
            => AppendsField(C4Table(prop_type))]_vars

\* C5: a property of type array whose items are of type object starts the
\* compilation of items to a nested model; any other array gets the type
\* sequence-of-(table image of items.type), the unconstrained element type
\* when items or items.type is missing or unrecognised.
C5_ArrayItems ==
    [][InLoop /\ IsMapping(prop_attrs) /\ prop_type = JStr("array")
       /\ IsMapping(items)
            => IF Get(items, "type", None) = JStr("object")
               THEN IsSchemaDocument(items) =>
                       /\ Len(stack') = Len(stack) + 1
                       /\ stack'[Len(stack')].props = Entries(items)
                       /\ stack'[Len(stack')].model_name = DynamicModel
               ELSE AppendsField([k |-> "List",
                                  elem |-> SpecTable(Get(items, "type", None))])]_vars

\* What the code does keep of C5: with items.type hashable, the sequence type
\* of the table image.
ArrayItemsOnHashable ==
    [][InLoop /\ IsMapping(prop_attrs) /\ prop_type = JStr("array")
       /\ IsMapping(items) /\ Hashable(Get(items, "type", None))
       /\ Get(items, "type", None) # JStr("object")
            => AppendsField([k |-> "List",
                             elem |-> SpecTable(Get(items, "type", None))])]_vars

\* C6: at every nesting depth, the field of a property of type object is one
\* instance of the model compiled from the property's own attributes, named
\* by capitalising the property name, with zero fields when the property has
\* no `properties`.
C6_ObjectIsNestedModel ==
    \A c \in Compiled : \A q \in 1..Len(c.fields) :
        TypeOf(c.props[q].attrs) = JStr("object") =>
            c.fields[q].type = SpecCompile(c.props[q].attrs, Capitalized(c.props[q].name))

\* an object named aB inside an object: models Ab two levels deep
C6_Witness ==
    /\ Done
    /\ outcome.k = "model"
    /\ \E q \in 1..Len(outcome.fields) :
          /\ outcome.fields[q].type.k = "model"
          /\ outcome.fields[q].type.name = <<"A", "b">>
          /\ \E r \in 1..Len(outcome.fields[q].type.fields) :
                /\ outcome.fields[q].type.fields[r].type.k = "model"
                /\ outcome.fields[q].type.fields[r].type.name = <<"A", "b">>

\* C7: a schema mapping without the key `properties` compiles to a model with
\* zero fields and no error, whatever its other keys.
C7_NoPropertiesKey ==
    Done /\ call.schema.k = "dict" /\ call.schema.properties = Absent =>
        outcome = [k |-> "model", name |-> DynamicModel, fields |-> <<>>]

\* a root of type array with items and a required array, and no properties
C7_Witness ==
    /\ Done
    /\ call.schema.k = "dict"
    /\ call.schema.properties = Absent
    /\ call.schema.type = JStr("array")
    /\ call.schema.items # Absent
    /\ call.schema.required = JList(<<JName(<<"x">>)>>)
    /\ outcome.k = "model"

\* C8: every compiled field, at every nesting level, is required whatever a
\* `required` array says, and carries the description of its property, or
\* none when the property has none.
C8_RequiredAndDescribed ==
    \A c \in Compiled : \A q \in 1..Len(c.fields) :
        /\ c.fields[q].required = TRUE
        /\ c.fields[q].description = DescriptionOf(c.props[q].attrs)

\* an empty `required` array over two fields, one described and one not
C8_Witness ==
    /\ Done
    /\ outcome.k = "model"
    /\ call.schema.required = JList(<<>>)
    /\ \E q, r \in 1..Len(outcome.fields) :
          /\ outcome.fields[q].description = JStr("d")
          /\ outcome.fields[r].description = None

\* C9: a call on a document an earlier call was given ends as that call did,
\* whatever calls were made in between, and no step of a call changes the
\* document the call was given.
C9_CallsAreIndependent ==
    /\ [](Done /\ memo # NoMemo /\ memo.schema = call.schema => outcome = memo.outcome)
    /\ [][~Idle /\ ~Idle' => call' = call]_vars

\* a later call on a remembered document returned a model with fields
C9_Witness ==
    /\ Done
    /\ memo # NoMemo
    /\ memo.again
    /\ memo.schema = call.schema
    /\ outcome.k = "model"
    /\ Len(outcome.fields) > 0

\* C10: every call terminates; on a schema document the recursion is as deep
\* as the document nests, with one recursive call for each object property
\* and each array of objects and none for anything else.
C10_BoundedRecursion ==
    /\ [](Done /\ IsSchemaDocument(call.schema) =>
             /\ maxdepth = NestingDepth(call.schema)
             /\ nframes = 1 + NestedNodes(call.schema))
    /\ (Running ~> Done)

\* a document nesting two deep has been compiled
C10_Witness ==
    /\ Done
    /\ IsSchemaDocument(call.schema)
    /\ outcome.k = "model"
    /\ maxdepth = 2
    /\ nframes >= 3

====
